---------------------------- MODULE Spec2Model ----------------------------
(***************************************************************************)
(* Model of the call-centre transcript analyser: analysis.py (normaliser,  *)
(* sentiment scorer, protocol classifier, undefined-word finder) and       *)
(* interactive.py (the undefined-word resolver loop and the lexicon save). *)
(*                                                                         *)
(* A Python str is a sequence of one-character strings.  A Python dict is  *)
(* a sequence of <<key, value>> pairs with distinct keys, in insertion     *)
(* order (the order list(d) and json.dump produce).                        *)
(***************************************************************************)
EXTENDS Integers, Sequences, FiniteSets, TLC

(***************************************************************************)
(* Bounds of the model: the characters of a transcript of a main run, the  *)
(* entries of its lexicon document (all categories together), the words of *)
(* a queue handed to prompt_user directly, the tokens and the lexicon      *)
(* entries handed to analiza_sentimiento and find_undefined, and the lines *)
(* of a text handed to analiza_protocolo.                                  *)
(***************************************************************************)
MaxText == 3
MaxDocEntries == 1
MaxQueue == 2
MaxWords == 4
MaxLexEntries == 2
MaxLines == 3

(***************************************************************************)
(* Strings.                                                                *)
(***************************************************************************)
Range(s) == {s[i] : i \in 1..Len(s)}

\* Code points of the characters the model uses (Python compares strings by
\* code point).
ord(c) ==
    CASE c = "\n" -> 10
      [] c = " " -> 32
      [] c = "a" -> 97
      [] c = "b" -> 98
      [] c = "d" -> 100
      [] c = "h" -> 104
      [] c = "i" -> 105
      [] c = "l" -> 108
      [] c = "o" -> 111
      [] c = "s" -> 115
      [] c = "A" -> 65
      [] c = "H" -> 72
      [] c = "Á" -> 193
      [] c = "á" -> 225
      [] c = "ó" -> 243

\* str.lower(), character by character.
lower_ch(c) ==
    CASE c = "A" -> "a"
      [] c = "H" -> "h"
      [] c = "Á" -> "á"
      [] OTHER -> c

\* unicodedata.normalize('NFD', ch) without the combining marks (category Mn):
\* an accented letter decomposes into its base letter and one mark.
strip_accents_ch(c) ==
    CASE c = "á" -> "a"
      [] c = "Á" -> "A"
      [] c = "ó" -> "o"
      [] OTHER -> c

lower(s) == [i \in 1..Len(s) |-> lower_ch(s[i])]

strip_accents(s) == [i \in 1..Len(s) |-> strip_accents_ch(s[i])]

\* s < t for Python strings.
RECURSIVE StrLess(_, _)
StrLess(s, t) ==
    IF s = <<>> THEN t # <<>>
    ELSE IF t = <<>> THEN FALSE
    ELSE IF s[1] # t[1] THEN ord(s[1]) < ord(t[1])
    ELSE StrLess(Tail(s), Tail(t))

\* sorted(S) for a set of strings.
RECURSIVE sorted(_)
sorted(S) ==
    IF S = {} THEN <<>>
    ELSE LET m == CHOOSE x \in S : \A y \in S : y = x \/ StrLess(x, y)
         IN  <<m>> \o sorted(S \ {m})

\* s[i:i+len(p)] == p
OccursAt(s, p, i) ==
    /\ i + Len(p) - 1 <= Len(s)
    /\ \A k \in 1..Len(p) : s[i + k - 1] = p[k]

\* p in s
Contains(s, p) == \E i \in 1..(Len(s) + 1) : OccursAt(s, p, i)

\* str.replace(old, new) for a non-empty old: the non-overlapping occurrences,
\* leftmost first.
RECURSIVE replace(_, _, _)
replace(s, old, new) ==
    IF s = <<>> THEN <<>>
    ELSE IF OccursAt(s, old, 1)
         THEN new \o replace(SubSeq(s, Len(old) + 1, Len(s)), old, new)
         ELSE <<s[1]>> \o replace(Tail(s), old, new)

(***************************************************************************)
(* Dicts.                                                                  *)
(***************************************************************************)
\* list(d)
keys(d) == [i \in 1..Len(d) |-> d[i][1]]

\* k in d
has(d, k) == \E i \in 1..Len(d) : d[i][1] = k

\* d[k]
get(d, k) == d[CHOOSE i \in 1..Len(d) : d[i][1] = k][2]

\* d[k] = v
put(d, k, v) ==
    IF has(d, k)
    THEN [i \in 1..Len(d) |-> IF d[i][1] = k THEN <<k, v>> ELSE d[i]]
    ELSE Append(d, <<k, v>>)

(***************************************************************************)
(* analysis.py                                                             *)
(***************************************************************************)
\* json.load of the lexicon document and data.get(<category>, {}).
load_lexicon(doc) ==
    [positivos |-> doc.positivos, negativos |-> doc.negativos, neutros |-> doc.neutros]

\* [a-z]
IsAZ(c) == ord(c) \in 97..122

\* re.findall(r"[a-z]+", s): the maximal runs of a-z, left to right; cur is the
\* run being read.
RECURSIVE findall_az(_, _)
findall_az(s, cur) ==
    IF s = <<>> THEN (IF cur = <<>> THEN <<>> ELSE <<cur>>)
    ELSE IF IsAZ(s[1]) THEN findall_az(Tail(s), Append(cur, s[1]))
    ELSE (IF cur = <<>> THEN <<>> ELSE <<cur>>) \o findall_az(Tail(s), <<>>)

normalize_text(text) == findall_az(strip_accents(lower(text)), <<>>)

\* Mutant of sentimiento_loop: a word adds its weight the first time only.
RECURSIVE sentimiento_loop_once(_, _, _, _, _, _)
sentimiento_loop_once(words, i, positivos, negativos, neutros, acc) ==
    IF i > Len(words) THEN acc
    ELSE LET w == words[i]
             seen == \E k \in 1..(i - 1) : words[k] = w
             nxt ==
                 IF has(positivos, w)
                 THEN [acc EXCEPT !.total = IF seen THEN @ ELSE @ + get(positivos, w),
                                  !.pos_list = Append(@, <<w, get(positivos, w)>>)]
                 ELSE IF has(negativos, w)
                 THEN [acc EXCEPT !.total = IF seen THEN @ ELSE @ + get(negativos, w),
                                  !.neg_list = Append(@, <<w, get(negativos, w)>>)]
                 ELSE IF has(neutros, w)
                 THEN [acc EXCEPT !.neut_list = Append(@, w)]
                 ELSE acc
         IN  sentimiento_loop_once(words, i + 1, positivos, negativos, neutros, nxt)

\* One pass of the loop "for w in words" of analiza_sentimiento over words[i..].
RECURSIVE sentimiento_loop(_, _, _, _, _, _)
sentimiento_loop(words, i, positivos, negativos, neutros, acc) ==
    IF i > Len(words) THEN acc
    ELSE LET w == words[i]
             nxt ==
                 IF has(positivos, w)
                 THEN [acc EXCEPT !.total = @ + get(positivos, w),
                                  !.pos_list = Append(@, <<w, get(positivos, w)>>)]
                 ELSE IF has(negativos, w)
                 THEN [acc EXCEPT !.total = @ + get(negativos, w),
                                  !.neg_list = Append(@, <<w, get(negativos, w)>>)]
                 ELSE IF has(neutros, w)
                 THEN [acc EXCEPT !.neut_list = Append(@, w)]
                 ELSE acc
         IN  sentimiento_loop(words, i + 1, positivos, negativos, neutros, nxt)

\* max / min of the weights of a non-empty hit list.
MaxWeight(l) == CHOOSE p \in {l[i][2] : i \in 1..Len(l)} : \A k \in 1..Len(l) : l[k][2] <= p

MinWeight(l) == CHOOSE n \in {l[i][2] : i \in 1..Len(l)} : \A k \in 1..Len(l) : l[k][2] >= n

\* [w for w, p in l if p == weight]
RECURSIVE WordsWithWeight(_, _)
WordsWithWeight(l, weight) ==
    IF l = <<>> THEN <<>>
    ELSE (IF l[1][2] = weight THEN <<l[1][1]>> ELSE <<>>) \o WordsWithWeight(Tail(l), weight)

analiza_sentimiento(words, positivos, negativos, neutros) ==
    LET acc == sentimiento_loop(words, 1, positivos, negativos, neutros,
                   [total |-> 0, pos_list |-> <<>>, neg_list |-> <<>>, neut_list |-> <<>>])
        top_pos_weight == IF acc.pos_list # <<>> THEN MaxWeight(acc.pos_list) ELSE 0
        top_neg_weight == IF acc.neg_list # <<>> THEN MinWeight(acc.neg_list) ELSE 0
    IN  [total |-> acc.total,
         pos_count |-> Len(acc.pos_list),
         pos_words |-> keys(acc.pos_list),
         top_pos_words |-> WordsWithWeight(acc.pos_list, top_pos_weight),
         top_pos_weight |-> top_pos_weight,
         neg_count |-> Len(acc.neg_list),
         neg_words |-> keys(acc.neg_list),
         top_neg_words |-> WordsWithWeight(acc.neg_list, top_neg_weight),
         top_neg_weight |-> top_neg_weight,
         neut_count |-> Len(acc.neut_list),
         neut_words |-> acc.neut_list]

\* Mutant of find_undefined: a list comprehension, neither deduplicated nor
\* sorted.
find_undefined_listcomp(words, positivos, negativos, neutros) ==
    SelectSeq(words, LAMBDA w : ~has(positivos, w) /\ ~has(negativos, w) /\ ~has(neutros, w))

\* Mutant of find_undefined: the neutral category is not looked up.
find_undefined_no_neutros(words, positivos, negativos, neutros) ==
    sorted({w \in Range(words) : ~has(positivos, w) /\ ~has(negativos, w)})

find_undefined(words, positivos, negativos, neutros) ==
    sorted({w \in Range(words) :
               /\ ~has(positivos, w)
               /\ ~has(negativos, w)
               /\ ~has(neutros, w)})

(***************************************************************************)
(* The protocol patterns.  A pattern is a sequence of elements: a word     *)
(* boundary \b, or a set of characters of which one is read (cs), possibly *)
(* optional (x?).  SALUDOS and DESPEDIDAS are the lists of analysis.py,    *)
(* element by element.                                                     *)
(***************************************************************************)
WB == <<[k |-> "b", cs |-> {}, opt |-> FALSE]>>

Cls(S) == <<[k |-> "c", cs |-> S, opt |-> FALSE]>>

Opt(S) == <<[k |-> "c", cs |-> S, opt |-> TRUE]>>

Lits(s) == [i \in 1..Len(s) |-> [k |-> "c", cs |-> {s[i]}, opt |-> FALSE]]

SALUDOS ==
    <<
      \* r'\bhola\b'
      WB \o Lits(<<"h", "o", "l", "a">>) \o WB,
      \* r'\bbuen[oa]s?\b'
      WB \o Lits(<<"b", "u", "e", "n">>) \o Cls({"o", "a"}) \o Opt({"s"}) \o WB,
      \* r'\bbuenos dias\b'
      WB \o Lits(<<"b", "u", "e", "n", "o", "s", " ", "d", "i", "a", "s">>) \o WB,
      \* r'\bbuenas tardes\b'
      WB \o Lits(<<"b", "u", "e", "n", "a", "s", " ", "t", "a", "r", "d", "e", "s">>) \o WB,
      \* r'\bbuenas noches\b'
      WB \o Lits(<<"b", "u", "e", "n", "a", "s", " ", "n", "o", "c", "h", "e", "s">>) \o WB,
      \* r'\bfeliz dia\b'
      WB \o Lits(<<"f", "e", "l", "i", "z", " ", "d", "i", "a">>) \o WB,
      \* r'\bfeliz jornada\b'
      WB \o Lits(<<"f", "e", "l", "i", "z", " ", "j", "o", "r", "n", "a", "d", "a">>) \o WB,
      \* r'\bestimad[ao]s?\b'
      WB \o Lits(<<"e", "s", "t", "i", "m", "a", "d">>) \o Cls({"a", "o"}) \o Opt({"s"}) \o WB,
      \* r'\bsaludos cordiales\b'
      WB \o Lits(<<"s", "a", "l", "u", "d", "o", "s", " ", "c", "o", "r", "d", "i", "a", "l", "e", "s">>) \o WB,
      \* r'\bbienvenid[oa]s?\b'
      WB \o Lits(<<"b", "i", "e", "n", "v", "e", "n", "i", "d">>) \o Cls({"o", "a"}) \o Opt({"s"}) \o WB,
      \* r'\bgracias por llamar\b'
      WB \o Lits(<<"g", "r", "a", "c", "i", "a", "s", " ", "p", "o", "r", " ", "l", "l", "a", "m", "a", "r">>) \o WB,
      \* r'\bgracias por contactar\b'
      WB \o Lits(<<"g", "r", "a", "c", "i", "a", "s", " ", "p", "o", "r", " ", "c", "o", "n", "t", "a", "c", "t", "a", "r">>) \o WB,
      \* r'\bgracias por comunicarse\b'
      WB \o Lits(<<"g", "r", "a", "c", "i", "a", "s", " ", "p", "o", "r", " ", "c", "o", "m", "u", "n", "i", "c", "a", "r", "s", "e">>) \o WB,
      \* r'\bgracias por elegirnos\b'
      WB \o Lits(<<"g", "r", "a", "c", "i", "a", "s", " ", "p", "o", "r", " ", "e", "l", "e", "g", "i", "r", "n", "o", "s">>) \o WB,
      \* r'\bgracias por su preferencia\b'
      WB \o Lits(<<"g", "r", "a", "c", "i", "a", "s", " ", "p", "o", "r", " ", "s", "u", " ", "p", "r", "e", "f", "e", "r", "e", "n", "c", "i", "a">>) \o WB,
      \* r'\bles saluda\b'
      WB \o Lits(<<"l", "e", "s", " ", "s", "a", "l", "u", "d", "a">>) \o WB,
      \* r'\besta es la linea de\b'
      WB \o Lits(<<"e", "s", "t", "a", " ", "e", "s", " ", "l", "a", " ", "l", "i", "n", "e", "a", " ", "d", "e">>) \o WB,
      \* r'\blínea de atencion\b'
      WB \o Lits(<<"l", "í", "n", "e", "a", " ", "d", "e", " ", "a", "t", "e", "n", "c", "i", "o", "n">>) \o WB,
      \* r'\bes un placer atenderle\b'
      WB \o Lits(<<"e", "s", " ", "u", "n", " ", "p", "l", "a", "c", "e", "r", " ", "a", "t", "e", "n", "d", "e", "r", "l", "e">>) \o WB,
      \* r'\bmucho gusto en atenderle\b'
      WB \o Lits(<<"m", "u", "c", "h", "o", " ", "g", "u", "s", "t", "o", " ", "e", "n", " ", "a", "t", "e", "n", "d", "e", "r", "l", "e">>) \o WB,
      \* r'\ben que puedo ayudarle\b'
      WB \o Lits(<<"e", "n", " ", "q", "u", "e", " ", "p", "u", "e", "d", "o", " ", "a", "y", "u", "d", "a", "r", "l", "e">>) \o WB,
      \* r'\bcomo puedo ayudarle\b'
      WB \o Lits(<<"c", "o", "m", "o", " ", "p", "u", "e", "d", "o", " ", "a", "y", "u", "d", "a", "r", "l", "e">>) \o WB,
      \* r'\ben que le podemos ayudar\b'
      WB \o Lits(<<"e", "n", " ", "q", "u", "e", " ", "l", "e", " ", "p", "o", "d", "e", "m", "o", "s", " ", "a", "y", "u", "d", "a", "r">>) \o WB,
      \* r'\b¿?en que puedo asistirle\b'
      WB \o Opt({"¿"}) \o Lits(<<"e", "n", " ", "q", "u", "e", " ", "p", "u", "e", "d", "o", " ", "a", "s", "i", "s", "t", "i", "r", "l", "e">>) \o WB,
      \* r'\b¿?en que le puedo servir\b'
      WB \o Opt({"¿"}) \o Lits(<<"e", "n", " ", "q", "u", "e", " ", "l", "e", " ", "p", "u", "e", "d", "o", " ", "s", "e", "r", "v", "i", "r">>) \o WB,
      \* r'\bque tal\b'
      WB \o Lits(<<"q", "u", "e", " ", "t", "a", "l">>) \o WB,
      \* r'\bqué tal\b'
      WB \o Lits(<<"q", "u", "é", " ", "t", "a", "l">>) \o WB,
      \* r'\bholas\b'
      WB \o Lits(<<"h", "o", "l", "a", "s">>) \o WB
    >>

DESPEDIDAS ==
    <<
      \* r'gracias por su tiempo\b'
      Lits(<<"g", "r", "a", "c", "i", "a", "s", " ", "p", "o", "r", " ", "s", "u", " ", "t", "i", "e", "m", "p", "o">>) \o WB,
      \* r'gracias por llamar al servicio de atencion al cliente\b'
      Lits(<<"g", "r", "a", "c", "i", "a", "s", " ", "p", "o", "r", " ", "l", "l", "a", "m", "a", "r", " ", "a", "l", " ", "s", "e", "r", "v", "i", "c", "i", "o", " ", "d", "e", " ", "a", "t", "e", "n", "c", "i", "o", "n", " ", "a", "l", " ", "c", "l", "i", "e", "n", "t", "e">>) \o WB,
      \* r'gracias por contactar con nosotros\b'
      Lits(<<"g", "r", "a", "c", "i", "a", "s", " ", "p", "o", "r", " ", "c", "o", "n", "t", "a", "c", "t", "a", "r", " ", "c", "o", "n", " ", "n", "o", "s", "o", "t", "r", "o", "s">>) \o WB,
      \* r'gracias por comunicarse con nosotros\b'
      Lits(<<"g", "r", "a", "c", "i", "a", "s", " ", "p", "o", "r", " ", "c", "o", "m", "u", "n", "i", "c", "a", "r", "s", "e", " ", "c", "o", "n", " ", "n", "o", "s", "o", "t", "r", "o", "s">>) \o WB,
      \* r'gracias por elegirnos\b'
      Lits(<<"g", "r", "a", "c", "i", "a", "s", " ", "p", "o", "r", " ", "e", "l", "e", "g", "i", "r", "n", "o", "s">>) \o WB,
      \* r'muchas gracias\b'
      Lits(<<"m", "u", "c", "h", "a", "s", " ", "g", "r", "a", "c", "i", "a", "s">>) \o WB,
      \* r'muchas gracias por su preferencia\b'
      Lits(<<"m", "u", "c", "h", "a", "s", " ", "g", "r", "a", "c", "i", "a", "s", " ", "p", "o", "r", " ", "s", "u", " ", "p", "r", "e", "f", "e", "r", "e", "n", "c", "i", "a">>) \o WB,
      \* r'ha sido un placer atenderle\b'
      Lits(<<"h", "a", " ", "s", "i", "d", "o", " ", "u", "n", " ", "p", "l", "a", "c", "e", "r", " ", "a", "t", "e", "n", "d", "e", "r", "l", "e">>) \o WB,
      \* r'estamos a su disposicion\b'
      Lits(<<"e", "s", "t", "a", "m", "o", "s", " ", "a", " ", "s", "u", " ", "d", "i", "s", "p", "o", "s", "i", "c", "i", "o", "n">>) \o WB,
      \* r'quedo a sus ordenes\b'
      Lits(<<"q", "u", "e", "d", "o", " ", "a", " ", "s", "u", "s", " ", "o", "r", "d", "e", "n", "e", "s">>) \o WB,
      \* r'quedo a su disposicion\b'
      Lits(<<"q", "u", "e", "d", "o", " ", "a", " ", "s", "u", " ", "d", "i", "s", "p", "o", "s", "i", "c", "i", "o", "n">>) \o WB,
      \* r'no dude en contactarnos\b'
      Lits(<<"n", "o", " ", "d", "u", "d", "e", " ", "e", "n", " ", "c", "o", "n", "t", "a", "c", "t", "a", "r", "n", "o", "s">>) \o WB,
      \* r'hasta luego\b'
      Lits(<<"h", "a", "s", "t", "a", " ", "l", "u", "e", "g", "o">>) \o WB,
      \* r'hasta pronto\b'
      Lits(<<"h", "a", "s", "t", "a", " ", "p", "r", "o", "n", "t", "o">>) \o WB,
      \* r'hasta la proxima\b'
      Lits(<<"h", "a", "s", "t", "a", " ", "l", "a", " ", "p", "r", "o", "x", "i", "m", "a">>) \o WB,
      \* r'hasta manana\b'
      Lits(<<"h", "a", "s", "t", "a", " ", "m", "a", "n", "a", "n", "a">>) \o WB,
      \* r'hasta mañana\b'
      Lits(<<"h", "a", "s", "t", "a", " ", "m", "a", "ñ", "a", "n", "a">>) \o WB,
      \* r'nos vemos\b'
      Lits(<<"n", "o", "s", " ", "v", "e", "m", "o", "s">>) \o WB,
      \* r'nos mantenemos en contacto\b'
      Lits(<<"n", "o", "s", " ", "m", "a", "n", "t", "e", "n", "e", "m", "o", "s", " ", "e", "n", " ", "c", "o", "n", "t", "a", "c", "t", "o">>) \o WB,
      \* r'que tenga un buen dia\b'
      Lits(<<"q", "u", "e", " ", "t", "e", "n", "g", "a", " ", "u", "n", " ", "b", "u", "e", "n", " ", "d", "i", "a">>) \o WB,
      \* r'que tenga un excelente dia\b'
      Lits(<<"q", "u", "e", " ", "t", "e", "n", "g", "a", " ", "u", "n", " ", "e", "x", "c", "e", "l", "e", "n", "t", "e", " ", "d", "i", "a">>) \o WB,
      \* r'le deseamos un buen dia\b'
      Lits(<<"l", "e", " ", "d", "e", "s", "e", "a", "m", "o", "s", " ", "u", "n", " ", "b", "u", "e", "n", " ", "d", "i", "a">>) \o WB,
      \* r'que disfrute el resto de su dia\b'
      Lits(<<"q", "u", "e", " ", "d", "i", "s", "f", "r", "u", "t", "e", " ", "e", "l", " ", "r", "e", "s", "t", "o", " ", "d", "e", " ", "s", "u", " ", "d", "i", "a">>) \o WB,
      \* r'que pase un buen dia\b'
      Lits(<<"q", "u", "e", " ", "p", "a", "s", "e", " ", "u", "n", " ", "b", "u", "e", "n", " ", "d", "i", "a">>) \o WB,
      \* r'feliz dia\b'
      Lits(<<"f", "e", "l", "i", "z", " ", "d", "i", "a">>) \o WB,
      \* r'adios\b'
      Lits(<<"a", "d", "i", "o", "s">>) \o WB,
      \* r'adiós\b'
      Lits(<<"a", "d", "i", "ó", "s">>) \o WB
    >>

\* \w of a Python str pattern, on the characters of the model: letters
\* (accented ones too), digits and the underscore.
IsWordChar(c) ==
    LET o == ord(c)
    IN  o \in 48..57 \/ o \in 65..90 \/ o = 95 \/ o \in 97..122 \/ o \in 192..255

\* \b between s[j-1] and s[j].
AtBoundary(s, j) ==
    LET w(n) == n \in 1..Len(s) /\ IsWordChar(s[n])
    IN  w(j - 1) # w(j)

\* The elements p[i..] match s from position j on.
RECURSIVE MatchFrom(_, _, _, _)
MatchFrom(p, i, s, j) ==
    IF i > Len(p) THEN TRUE
    ELSE IF p[i].k = "b" THEN AtBoundary(s, j) /\ MatchFrom(p, i + 1, s, j)
    ELSE \/ j <= Len(s) /\ s[j] \in p[i].cs /\ MatchFrom(p, i + 1, s, j + 1)
         \/ p[i].opt /\ MatchFrom(p, i + 1, s, j)

\* re.search(p, s) is not None
search(p, s) == \E j \in 1..(Len(s) + 1) : MatchFrom(p, 1, s, j)

\* any(re.search(p, s) for p in patterns)
any_search(patterns, s) == \E n \in 1..Len(patterns) : search(patterns[n], s)

\* str.isspace() of one character.
IsSpace(c) == c \in {" ", "\n"}

\* str.strip()
RECURSIVE lstrip(_)
lstrip(s) == IF s # <<>> /\ IsSpace(s[1]) THEN lstrip(Tail(s)) ELSE s

RECURSIVE rstrip(_)
rstrip(s) ==
    IF s # <<>> /\ IsSpace(s[Len(s)]) THEN rstrip(SubSeq(s, 1, Len(s) - 1)) ELSE s

strip(s) == rstrip(lstrip(s))

\* str.splitlines(): the lines of s without their line breaks; cur is the line
\* being read, and a last line break starts no further line.
RECURSIVE splitlines(_, _)
splitlines(s, cur) ==
    IF s = <<>> THEN (IF cur = <<>> THEN <<>> ELSE <<cur>>)
    ELSE IF s[1] = "\n" THEN <<cur>> \o splitlines(Tail(s), <<>>)
    ELSE splitlines(Tail(s), Append(cur, s[1]))

\* [l.strip() for l in ls if l.strip()]
RECURSIVE stripped_nonempty(_)
stripped_nonempty(ls) ==
    IF ls = <<>> THEN <<>>
    ELSE (IF strip(ls[1]) # <<>> THEN <<strip(ls[1])>> ELSE <<>>)
             \o stripped_nonempty(Tail(ls))

\* Mutant of analiza_protocolo: the greeting and the farewell are looked for
\* in the whole text, as the identification is.
analiza_protocolo_whole_text(text) ==
    LET clean == strip_accents(lower(text))
    IN  [saludo |-> any_search(SALUDOS, clean),
         desp   |-> any_search(DESPEDIDAS, clean)]

\* The greeting and farewell flags of analiza_protocolo (its identification
\* flag and its rude words read the whole text and are left out).
analiza_protocolo(text) ==
    LET clean == strip_accents(lower(text))
        lines == stripped_nonempty(splitlines(clean, <<>>))
        first == IF lines # <<>> THEN lines[1] ELSE <<>>
        last  == IF lines # <<>> THEN lines[Len(lines)] ELSE <<>>
    IN  [saludo |-> any_search(SALUDOS, first),
         desp   |-> any_search(DESPEDIDAS, last)]

\* The report of run_analysis: the sentiment fields and the undefined words (the
\* protocol fields are only printed and are modelled by analiza_protocolo).
run_analysis(texto, doc) ==
    LET lex == load_lexicon(doc)
        words == normalize_text(texto)
    IN  [sentimiento |-> analiza_sentimiento(words, lex.positivos, lex.negativos, lex.neutros),
         undefined |-> find_undefined(words, lex.positivos, lex.negativos, lex.neutros)]

(***************************************************************************)
(* interactive.py                                                          *)
(***************************************************************************)
\* Mutant of save_lexicon: a new document of the three fields is written.
save_lexicon_fresh(doc, positivos, negativos, neutros) ==
    [positivos |-> positivos, negativos |-> negativos, neutros |-> neutros,
     otros |-> "missing"]

\* data = json.load(f); the three fields are set; the document is rewritten.
save_lexicon(doc, positivos, negativos, neutros) ==
    [doc EXCEPT !.positivos = positivos, !.negativos = negativos, !.neutros = neutros]

Min2(a, b) == IF a <= b THEN a ELSE b

\* Levenshtein.distance(s, t): insertions, deletions and substitutions cost 1.
RECURSIVE distance(_, _)
distance(s, t) ==
    IF s = <<>> THEN Len(t)
    ELSE IF t = <<>> THEN Len(s)
    ELSE Min2(Min2(distance(Tail(s), t) + 1, distance(s, Tail(t)) + 1),
              distance(Tail(s), Tail(t)) + (IF s[1] = t[1] THEN 0 ELSE 1))

\* Levenshtein.hamming(s, t) for strings of one length.
hamming(s, t) == Cardinality({i \in 1..Len(s) : s[i] # t[i]})

\* float('inf') as the Hamming distance of words of different lengths.
HamInf == 1000

max_suggestions == 5

\* The key (lev, ham) of one entry of dists.
SortKeyLeq(x, y) ==
    \/ x[2][1] < y[2][1]
    \/ x[2][1] = y[2][1] /\ x[2][2] <= y[2][2]

\* list.sort(key=...): stable, so an entry goes after the entries whose key is
\* not greater.
RECURSIVE insert_sorted(_, _)
insert_sorted(l, x) ==
    IF l = <<>> THEN <<x>>
    ELSE IF SortKeyLeq(l[1], x) THEN <<l[1]>> \o insert_sorted(Tail(l), x)
    ELSE <<x>> \o l

RECURSIVE sort_dists(_, _)
sort_dists(dists, acc) ==
    IF dists = <<>> THEN acc
    ELSE sort_dists(Tail(dists), insert_sorted(acc, dists[1]))

suggest_candidates(word, lexkeys) ==
    LET dists == [n \in 1..Len(lexkeys) |->
                     <<lexkeys[n],
                       <<distance(word, lexkeys[n]),
                         IF Len(word) = Len(lexkeys[n])
                         THEN hamming(word, lexkeys[n]) ELSE HamInf>> >>]
        srt == sort_dists(dists, <<>>)
    IN  SubSeq(srt, 1, Min2(max_suggestions, Len(srt)))

\* Mutant of pop: the first word is removed whatever the selection.
pop_first(l, i) == Tail(l)

\* list.pop(i) for the index i + 1 of the model.
pop(l, i) == SubSeq(l, 1, i - 1) \o SubSeq(l, i + 1, Len(l))

(***************************************************************************)
(* The state.                                                              *)
(***************************************************************************)
VARIABLES
    pc,         \* where the run is: "start", "call", "loop", "done", "returned"
    caller,     \* "main": a run of main; "direct": prompt_user called directly;
                \* "analysis": one function of analysis.py called
    content,    \* the transcript file
    disk,       \* the lexicon document tokens.json
    disk0,      \* the lexicon document at the start of the run
    saves,      \* how many times save_lexicon has written the document
    result,     \* the report of run_analysis
    undefined,  \* the queue of prompt_user
    positivos,  \* the three mappings in memory
    negativos,
    neutros,
    lex_keys,   \* the local lex_keys of prompt_user
    outcome,    \* the last message prompt_user printed
    idx,        \* the index selected in the last iteration (0: none)
    cands,      \* the candidates listed in the last iteration
    cand,       \* the candidate accepted in the last iteration
    call,       \* the arguments of a function of analysis.py called directly
    ret         \* what it returned

vars == <<pc, caller, content, disk, disk0, saves, result, undefined, positivos,
          negativos, neutros, lex_keys, outcome, idx, cands, cand, call, ret>>

(***************************************************************************)
(* The inputs.                                                             *)
(***************************************************************************)
SeqsUpTo(S, n) == UNION {[1..m -> S] : m \in 0..n}

\* Dicts of at most n entries.
Dicts(K, W, n) ==
    {d \in SeqsUpTo(K \X W, n) : \A i, j \in 1..Len(d) : d[i][1] = d[j][1] => i = j}

LexWords == {<<"a">>, <<"b">>}

\* Lexicons of the data model: positive weights 1..3, negative -3..-1, neutral 0.
\* The store does not keep the categories disjoint.
Lexicons ==
    {l \in [positivos : Dicts(LexWords, 1..3, MaxLexEntries),
            negativos : Dicts(LexWords, (-3)..(-1), MaxLexEntries),
            neutros : Dicts(LexWords, {0}, MaxLexEntries)] :
        Len(l.positivos) + Len(l.negativos) + Len(l.neutros) <= MaxLexEntries}

\* The lexicons a resolver session starts from: the weights of the entries
\* already there play no part in the session, so one weight per category.
SessionLexicons ==
    {l \in [positivos : Dicts(LexWords, {2}, MaxDocEntries),
            negativos : Dicts(LexWords, {-2}, MaxDocEntries),
            neutros : Dicts(LexWords, {0}, MaxDocEntries)] :
        Len(l.positivos) + Len(l.negativos) + Len(l.neutros) <= MaxDocEntries}

\* Lexicon documents: the three categories and one more top-level field.
Docs ==
    {[positivos |-> l.positivos, negativos |-> l.negativos, neutros |-> l.neutros,
      otros |-> "v1"] : l \in SessionLexicons}

\* The characters of a transcript; "Á" and "a" are one letter to the
\* normaliser.
TextChars == {"a", "b", "Á", " "}

Transcripts == SeqsUpTo(TextChars, MaxText)

\* The forms a queued word is written in; "Á" and "a" are one word.
RawWords == {<<"a">>, <<"b">>, <<"Á">>}

\* " ".join(ws)
RECURSIVE join_words(_)
join_words(ws) ==
    IF ws = <<>> THEN <<>>
    ELSE IF Len(ws) = 1 THEN ws[1]
    ELSE ws[1] \o <<" ">> \o join_words(Tail(ws))


NoDoc == [positivos |-> <<>>, negativos |-> <<>>, neutros |-> <<>>, otros |-> "v1"]

NoCall ==
    [fn |-> "none", words |-> <<>>,
     lex |-> [positivos |-> <<>>, negativos |-> <<>>, neutros |-> <<>>],
     lines |-> <<>>, text |-> <<>>]

\* What the operator types at a numeric prompt: nothing, digits, or other text.
Typed(N) ==
    {[kind |-> "empty", n |-> 0], [kind |-> "text", n |-> 0]}
        \cup {[kind |-> "digits", n |-> n] : n \in N}

\* What the operator types at the weight prompt: text int() rejects, or an
\* integer literal (the ends of the two ranges, their neighbours outside, 0).
Pesos ==
    {[kind |-> "text", n |-> 0]}
        \cup {[kind |-> "int", n |-> n] : n \in {-4, -3, -1, 0, 1, 3, 4}}

Categorias == {"p", "n", "t", "x"}

(***************************************************************************)
(* main and prompt_user.                                                   *)
(***************************************************************************)
InitMain ==
    /\ pc = "start"
    /\ caller = "main"
    /\ content \in Transcripts
    /\ disk \in Docs
    /\ disk0 = disk
    /\ saves = 0
    /\ result = <<>>
    /\ undefined = <<>>
    /\ positivos = <<>>
    /\ negativos = <<>>
    /\ neutros = <<>>
    /\ lex_keys = <<>>
    /\ outcome = "none"
    /\ idx = 0
    /\ cands = <<>>
    /\ cand = <<>>
    /\ call = NoCall
    /\ ret = <<>>

\* main up to the first prompt: the analysis, and with undefined words the
\* lexicon is loaded again and prompt_user is entered (lex_keys is computed
\* before its loop).
RunMain ==
    /\ pc = "start"
    /\ caller = "main"
    /\ LET res == run_analysis(content, disk)
           lex == load_lexicon(disk)
       IN  /\ result' = res
           /\ IF res.undefined # <<>>
              THEN /\ undefined' = res.undefined
                   /\ positivos' = lex.positivos
                   /\ negativos' = lex.negativos
                   /\ neutros' = lex.neutros
                   /\ lex_keys' = keys(lex.positivos) \o keys(lex.negativos) \o keys(lex.neutros)
                   /\ pc' = "loop"
              ELSE /\ pc' = "done"
                   /\ UNCHANGED <<undefined, positivos, negativos, neutros, lex_keys>>
    /\ UNCHANGED <<caller, content, disk, disk0, saves, outcome, idx, cands, cand, call, ret>>

\* Mutant of Continue: ENTER at the selection prompt does not leave the loop.
ContinueNoBreak(exit, undefined2, positivos2, negativos2, neutros2) ==
    IF undefined2 # <<>>
    THEN /\ pc' = "loop"
         /\ UNCHANGED <<disk, saves>>
    ELSE IF caller = "main"
    THEN /\ pc' = "done"
         /\ disk' = [disk EXCEPT !.positivos = positivos2, !.negativos = negativos2,
                                 !.neutros = neutros2]
         /\ saves' = saves + 1
    ELSE /\ pc' = "returned"
         /\ UNCHANGED <<disk, saves>>

\* The end of one iteration of "while undefined": with words left and no exit
\* the next prompt; otherwise prompt_user returns, and main saves the lexicon.
Continue(exit, undefined2, positivos2, negativos2, neutros2) ==
    IF ~exit /\ undefined2 # <<>>
    THEN /\ pc' = "loop"
         /\ UNCHANGED <<disk, saves>>
    ELSE IF caller = "main"
    THEN /\ pc' = "done"
         /\ disk' = save_lexicon(disk, positivos2, negativos2, neutros2)
         /\ saves' = saves + 1
    ELSE /\ pc' = "returned"
         /\ UNCHANGED <<disk, saves>>

\* One iteration that changes neither the queue, the lexicon nor the file.
Pending(msg, i, cs) ==
    /\ outcome' = msg
    /\ idx' = i
    /\ cands' = cs
    /\ cand' = <<>>
    /\ UNCHANGED <<undefined, positivos, negativos, neutros, content>>
    /\ Continue(FALSE, undefined, positivos, negativos, neutros)

\* sel.isdigit() and 1 <= int(sel) <= len(undefined)
ValidSelection(sel) == sel.kind = "digits" /\ 1 <= sel.n /\ sel.n <= Len(undefined)

Selections == Typed(0..(Len(undefined) + 1))

\* ENTER at the selection prompt.
EndSession ==
    /\ pc = "loop"
    /\ outcome' = "finalizada"
    /\ idx' = 0
    /\ cands' = <<>>
    /\ cand' = <<>>
    /\ UNCHANGED <<undefined, positivos, negativos, neutros, content>>
    /\ Continue(TRUE, undefined, positivos, negativos, neutros)
    /\ UNCHANGED <<caller, disk0, result, lex_keys, call, ret>>

InvalidSelection ==
    /\ pc = "loop"
    /\ \E sel \in Selections :
          /\ sel.kind # "empty"
          /\ ~ValidSelection(sel)
          /\ Pending("seleccion_invalida", 0, <<>>)
    /\ UNCHANGED <<caller, disk0, result, lex_keys, call, ret>>

\* The classification branch for the word at index i: the new mappings, and
\* whether the word was added.
classify(word, cat, peso) ==
    IF cat = "p"
    THEN IF peso.kind # "int"
         THEN [msg |-> "peso_invalido", ok |-> FALSE, pos |-> positivos,
               neg |-> negativos, neut |-> neutros]
         ELSE IF 1 <= peso.n /\ peso.n <= 3 /\ ~has(positivos, word)
         THEN [msg |-> "agregada", ok |-> TRUE, pos |-> put(positivos, word, peso.n),
               neg |-> negativos, neut |-> neutros]
         ELSE [msg |-> "no_se_agrega", ok |-> FALSE, pos |-> positivos,
               neg |-> negativos, neut |-> neutros]
    ELSE IF cat = "n"
    THEN IF peso.kind # "int"
         THEN [msg |-> "peso_invalido", ok |-> FALSE, pos |-> positivos,
               neg |-> negativos, neut |-> neutros]
         ELSE IF -3 <= peso.n /\ peso.n <= -1 /\ ~has(negativos, word)
         THEN [msg |-> "agregada", ok |-> TRUE, pos |-> positivos,
               neg |-> put(negativos, word, peso.n), neut |-> neutros]
         ELSE [msg |-> "no_se_agrega", ok |-> FALSE, pos |-> positivos,
               neg |-> negativos, neut |-> neutros]
    ELSE IF cat = "t"
    THEN IF ~has(neutros, word)
         THEN [msg |-> "agregada", ok |-> TRUE, pos |-> positivos,
               neg |-> negativos, neut |-> put(neutros, word, 0)]
         ELSE [msg |-> "ya_existe_en_neutros", ok |-> FALSE, pos |-> positivos,
               neg |-> negativos, neut |-> neutros]
    ELSE [msg |-> "categoria_no_valida", ok |-> FALSE, pos |-> positivos,
          neg |-> negativos, neut |-> neutros]

\* A valid selection answered "s": the Classification state.  A weight is
\* asked for the categories p and n only.
Classify ==
    /\ pc = "loop"
    /\ \E sel \in Selections, cat \in Categorias, peso \in Pesos :
          /\ ValidSelection(sel)
          /\ cat \in {"p", "n"} \/ peso.kind = "text"
          /\ LET raw == undefined[sel.n]
                 word == strip_accents(lower(raw))
                 c == classify(word, cat, peso)
                 undefined2 == IF c.ok THEN pop(undefined, sel.n) ELSE undefined
             IN  /\ outcome' = c.msg
                 /\ idx' = sel.n
                 /\ cands' = <<>>
                 /\ cand' = <<>>
                 /\ positivos' = c.pos
                 /\ negativos' = c.neg
                 /\ neutros' = c.neut
                 /\ undefined' = undefined2
                 /\ UNCHANGED content
                 /\ Continue(FALSE, undefined2, c.pos, c.neg, c.neut)
    /\ UNCHANGED <<caller, disk0, result, lex_keys, call, ret>>

\* A valid selection answered anything else: the Suggestion state.
Suggest ==
    /\ pc = "loop"
    /\ \E sel \in Selections :
          /\ ValidSelection(sel)
          /\ LET raw == undefined[sel.n]
                 word == strip_accents(lower(raw))
                 cs == suggest_candidates(word, lex_keys)
             IN  \E choice \in Typed(0..(Len(cs) + 1)) :
                    IF choice.kind = "digits" /\ 1 <= choice.n /\ choice.n <= Len(cs)
                    THEN LET undefined2 == pop(undefined, sel.n)
                         IN  /\ outcome' = "texto_actualizado"
                             /\ idx' = sel.n
                             /\ cands' = cs
                             /\ cand' = cs[choice.n][1]
                             /\ content' = replace(content, raw, cs[choice.n][1])
                             /\ undefined' = undefined2
                             /\ UNCHANGED <<positivos, negativos, neutros>>
                             /\ Continue(FALSE, undefined2, positivos, negativos, neutros)
                    ELSE Pending("omitido", sel.n, cs)
    /\ UNCHANGED <<caller, disk0, result, lex_keys, call, ret>>

Iteration == EndSession \/ InvalidSelection \/ Classify \/ Suggest

Next == RunMain \/ Iteration

Spec == InitMain /\ [][Next]_vars

(***************************************************************************)
(* prompt_user called directly, on any queue and lexicon.                  *)
(***************************************************************************)
\* Queues that name each form once, as a deduplicated list does.
Queues ==
    {q \in SeqsUpTo(RawWords, MaxQueue) : \A i, j \in 1..Len(q) : q[i] = q[j] => i = j}

\* The transcript names the queued words, in the forms they are queued in.
InitDirect ==
    /\ pc = "call"
    /\ caller = "direct"
    /\ undefined \in Queues
    /\ content = join_words(undefined)
    /\ \E l \in SessionLexicons :
          /\ positivos = l.positivos
          /\ negativos = l.negativos
          /\ neutros = l.neutros
    /\ disk = NoDoc
    /\ disk0 = disk
    /\ saves = 0
    /\ result = <<>>
    /\ lex_keys = <<>>
    /\ outcome = "none"
    /\ idx = 0
    /\ cands = <<>>
    /\ cand = <<>>
    /\ call = NoCall
    /\ ret = <<>>

\* prompt_user up to its first prompt.
EnterPromptUser ==
    /\ pc = "call"
    /\ caller = "direct"
    /\ lex_keys' = keys(positivos) \o keys(negativos) \o keys(neutros)
    /\ pc' = IF undefined # <<>> THEN "loop" ELSE "returned"
    /\ UNCHANGED <<caller, content, disk, disk0, saves, result, undefined, positivos,
                   negativos, neutros, outcome, idx, cands, cand, call, ret>>

NextDirect == EnterPromptUser \/ Iteration

SpecDirect == InitDirect /\ [][NextDirect]_vars

(***************************************************************************)
(* The functions of analysis.py called on their own.                       *)
(***************************************************************************)
TokenWords == {<<"a">>, <<"b">>, <<"a", "b">>}

LineUniverse ==
    {<<>>,
     <<" ">>,
     <<"s", "i">>,
     <<"H", "o", "l", "a">>,
     <<" ", "h", "o", "l", "a", " ">>,
     <<"a", "d", "i", "ó", "s">>}

\* "\n".join(ls)
RECURSIVE join_lines(_)
join_lines(ls) ==
    IF ls = <<>> THEN <<>>
    ELSE IF Len(ls) = 1 THEN ls[1]
    ELSE ls[1] \o <<"\n">> \o join_lines(Tail(ls))

NoLex == [positivos |-> <<>>, negativos |-> <<>>, neutros |-> <<>>]

\* One call: a token sequence and a lexicon for analiza_sentimiento or
\* find_undefined, or a text of lines for analiza_protocolo.
InitAnalysis ==
    /\ pc = "call"
    /\ caller = "analysis"
    /\ \/ \E f \in {"analiza_sentimiento", "find_undefined"},
              w \in SeqsUpTo(TokenWords, MaxWords),
              l \in Lexicons :
               call = [fn |-> f, words |-> w, lex |-> l, lines |-> <<>>, text |-> <<>>]
       \/ \E ls \in SeqsUpTo(LineUniverse, MaxLines) :
               call = [fn |-> "analiza_protocolo", words |-> <<>>, lex |-> NoLex,
                       lines |-> ls, text |-> join_lines(ls)]
    /\ ret = <<>>
    /\ content = <<>>
    /\ disk = NoDoc
    /\ disk0 = disk
    /\ saves = 0
    /\ result = <<>>
    /\ undefined = <<>>
    /\ positivos = <<>>
    /\ negativos = <<>>
    /\ neutros = <<>>
    /\ lex_keys = <<>>
    /\ outcome = "none"
    /\ idx = 0
    /\ cands = <<>>
    /\ cand = <<>>

Returns(value) ==
    /\ ret' = value
    /\ pc' = "returned"
    /\ UNCHANGED <<caller, content, disk, disk0, saves, result, undefined, positivos,
                   negativos, neutros, lex_keys, outcome, idx, cands, cand, call>>

CallSentimiento ==
    /\ pc = "call"
    /\ call.fn = "analiza_sentimiento"
    /\ Returns(analiza_sentimiento(call.words, call.lex.positivos, call.lex.negativos,
                                   call.lex.neutros))

CallFindUndefined ==
    /\ pc = "call"
    /\ call.fn = "find_undefined"
    /\ Returns(find_undefined(call.words, call.lex.positivos, call.lex.negativos,
                              call.lex.neutros))

CallProtocolo ==
    /\ pc = "call"
    /\ call.fn = "analiza_protocolo"
    /\ Returns(analiza_protocolo(call.text))

NextAnalysis == CallSentimiento \/ CallFindUndefined \/ CallProtocolo

SpecAnalysis == InitAnalysis /\ [][NextAnalysis]_vars

(***************************************************************************)
(* The claims.                                                             *)
(***************************************************************************)
Succeeded == {"agregada", "texto_actualizado"}

Classified ==
    {"agregada", "no_se_agrega", "peso_invalido", "ya_existe_en_neutros",
     "categoria_no_valida"}

Unresolved ==
    {"seleccion_invalida", "no_se_agrega", "peso_invalido", "ya_existe_en_neutros",
     "categoria_no_valida", "omitido"}

\* The word prompt_user derives from a queued form.
WordOf(raw) == strip_accents(lower(raw))

InAnyCategory(w) == has(positivos, w) \/ has(negativos, w) \/ has(neutros, w)

\* q without its element at index k, the others in their order.
RemoveAt(q, k) == [i \in 1..(Len(q) - 1) |-> IF i < k THEN q[i] ELSE q[i + 1]]

\* C1: in the Classification state, classifying a selected word that is
\* already a key of any of the three categories is rejected: the word stays
\* in the queue and no mapping changes.
C1_RejectsWordInAnyCategory ==
    [][(/\ pc = "loop"
        /\ outcome' \in Classified
        /\ idx' \in 1..Len(undefined)
        /\ InAnyCategory(WordOf(undefined[idx'])))
       => /\ undefined' = undefined
          /\ positivos' = positivos
          /\ negativos' = negativos
          /\ neutros' = neutros]_vars

\* C2: an iteration removes a word from the queue only when it ends in a
\* successful classification or an accepted replacement, and then exactly the
\* selected word, the others keeping their order; every other iteration
\* leaves the queue, the three mappings and the transcript file unchanged.
C2_QueueShrinksOnlyOnSuccess ==
    [][pc = "loop"
       => /\ undefined' # undefined => outcome' \in Succeeded
          /\ outcome' \in Succeeded
                => /\ idx' \in 1..Len(undefined)
                   /\ undefined' = RemoveAt(undefined, idx')
          /\ outcome' \notin Succeeded
                => /\ undefined' = undefined
                   /\ positivos' = positivos
                   /\ negativos' = negativos
                   /\ neutros' = neutros
                   /\ content' = content]_vars

\* C2 witness: a classification was rejected because the word was already in
\* the target category, with a second word still queued behind it.
C2_Witness ==
    /\ pc = "loop"
    /\ outcome \in {"no_se_agrega", "ya_existe_en_neutros"}
    /\ idx = 1
    /\ Len(undefined) = 2
    /\ InAnyCategory(WordOf(undefined[1]))

DisjointKeys(p, n, t) ==
    /\ \A i \in 1..Len(p) : ~has(n, p[i][1]) /\ ~has(t, p[i][1])
    /\ \A i \in 1..Len(n) : ~has(t, n[i][1])

\* C3: in a run of main that starts from a lexicon with pairwise disjoint
\* categories, after any resolver iterations no word is a key of two
\* categories, positive weights are in 1..3, negative ones in -3..-1 and
\* neutral ones are 0.
C3_DisjointAndInRange ==
    (/\ caller = "main"
     /\ pc \in {"loop", "done"}
     /\ DisjointKeys(disk0.positivos, disk0.negativos, disk0.neutros))
    => /\ DisjointKeys(positivos, negativos, neutros)
       /\ \A i \in 1..Len(positivos) : positivos[i][2] \in 1..3
       /\ \A i \in 1..Len(negativos) : negativos[i][2] \in (-3)..(-1)
       /\ \A i \in 1..Len(neutros) : neutros[i][2] = 0

\* C3 witness: a session that added a positive and a negative word.
C3_Witness ==
    /\ caller = "main"
    /\ pc = "done"
    /\ Len(positivos) > Len(disk0.positivos)
    /\ Len(negativos) > Len(disk0.negativos)

\* The forms in which the token w is written in the text s: the maximal runs
\* of letters of s that normalise to w.
IsLetterAt(s, k) == k \in 1..Len(s) /\ IsAZ(strip_accents_ch(lower_ch(s[k])))

OriginalForms(s, w) ==
    {SubSeq(s, r[1], r[2]) :
        r \in {x \in (1..Len(s)) \X (1..Len(s)) :
                 /\ x[1] <= x[2]
                 /\ \A k \in x[1]..x[2] : IsLetterAt(s, k)
                 /\ ~IsLetterAt(s, x[1] - 1)
                 /\ ~IsLetterAt(s, x[2] + 1)
                 /\ WordOf(SubSeq(s, x[1], x[2])) = w}}

\* C4: when a candidate is accepted for a queued word, the file is rewritten
\* with the candidate in place of the word in the form it is written in, so
\* that no occurrence of that form is left, and the word leaves the queue.
C4_NoOriginalFormLeft ==
    [][(pc = "loop" /\ caller = "main" /\ outcome' = "texto_actualizado")
       => /\ idx' \in 1..Len(undefined)
          /\ \A f \in OriginalForms(content, undefined[idx']) : ~Contains(content', f)
          /\ undefined' = RemoveAt(undefined, idx')]_vars

\* The rank of the lexicon word k for the word w: the Levenshtein distance,
\* then the Hamming distance, infinite for words of different lengths.
Rank(w, k) ==
    <<distance(w, k), IF Len(w) = Len(k) THEN hamming(w, k) ELSE HamInf>>

RankLeq(a, b) == a[1] < b[1] \/ (a[1] = b[1] /\ a[2] <= b[2])

\* cs lists the first max_suggestions words of K by rank for w.
TopRanked(cs, w, K) ==
    /\ Len(cs) = Min2(max_suggestions, Cardinality(K))
    /\ \A i \in 1..Len(cs) : cs[i][1] \in K /\ cs[i][2] = Rank(w, cs[i][1])
    /\ \A i, j \in 1..Len(cs) : cs[i][1] = cs[j][1] => i = j
    /\ \A i, j \in 1..Len(cs) : i < j => RankLeq(cs[i][2], cs[j][2])
    /\ \A k \in K \ {cs[i][1] : i \in 1..Len(cs)} :
          \A i \in 1..Len(cs) : RankLeq(cs[i][2], Rank(w, k))

\* C5: each time the Suggestion state is entered for a word, the candidates
\* listed are the first 5 by rank of the keys the three mappings have at that
\* moment, words classified earlier in the session included.
C5_CandidatesFromCurrentKeys ==
    [][(pc = "loop" /\ outcome' \in {"omitido", "texto_actualizado"})
       => /\ idx' \in 1..Len(undefined)
          /\ TopRanked(cands', WordOf(undefined[idx']),
                       Range(keys(positivos)) \cup Range(keys(negativos))
                           \cup Range(keys(neutros)))]_vars

\* C6: in a run of main with undefined words the lexicon document is not
\* written while the loop runs and is written once when it has ended; then
\* its three category fields are the mappings in memory and its other field
\* is as it was.  An accepted replacement rewrites the transcript file in its
\* own iteration.
C6_SavedOnceAfterLoop ==
    /\ [](caller = "main"
          => /\ pc = "loop" => disk = disk0 /\ saves = 0
             /\ (pc = "done" /\ result.undefined # <<>>)
                   => /\ saves = 1
                      /\ disk.positivos = positivos
                      /\ disk.negativos = negativos
                      /\ disk.neutros = neutros
                      /\ disk.otros = disk0.otros)
    /\ [][(caller = "main" /\ outcome' = "texto_actualizado")
          => content' = replace(content, undefined[idx'], cand')]_vars

\* C6 witness: the run has ended and the one write changed the document.
C6_Witness ==
    /\ caller = "main"
    /\ pc = "done"
    /\ saves = 1
    /\ disk # disk0

\* C7 as stated: every iteration shrinks the queue by one word or is the
\* operator's exit, the queue never grows, and the loop stops exactly when
\* the queue is empty or the operator exits.
C7_EveryIterationShrinksOrExits ==
    [][pc = "loop"
       => /\ Len(undefined') = Len(undefined) - 1 \/ outcome' = "finalizada"
          /\ Len(undefined') <= Len(undefined)
          /\ pc' # "loop" <=> (undefined' = <<>> \/ outcome' = "finalizada")]_vars

\* C7 amended: every iteration shrinks the queue by one word, is the
\* operator's exit, or leaves the queue as it is (an invalid selection, a
\* rejected classification, an omitted suggestion); the queue never grows,
\* and the loop stops exactly when the queue is empty or the operator exits.
C7_ShrinksExitsOrKeeps ==
    [][pc = "loop"
       => /\ undefined # <<>>
          /\ \/ Len(undefined') = Len(undefined) - 1 /\ outcome' \in Succeeded
             \/ undefined' = undefined /\ outcome' = "finalizada"
             \/ undefined' = undefined /\ outcome' \in Unresolved /\ pc' = "loop"
          /\ Len(undefined') <= Len(undefined)
          /\ pc' # "loop" <=> (undefined' = <<>> \/ outcome' = "finalizada")]_vars

\* C7 witness: an iteration has ended without shrinking the queue and without
\* an exit, and the loop goes on.
C7_Witness ==
    /\ pc = "loop"
    /\ outcome \in Unresolved
    /\ Len(undefined) = MaxQueue

\* The sum of d[w] over the words w of ws, each occurrence counted.
RECURSIVE SumWeights(_, _)
SumWeights(ws, d) ==
    IF ws = <<>> THEN 0 ELSE get(d, ws[1]) + SumWeights(Tail(ws), d)

\* The occurrences in ws of the keys of d, in order.
Hits(ws, d) == SelectSeq(ws, LAMBDA w : has(d, w))

\* C8: analiza_sentimiento returns as total the sum of the weights of the
\* positive hits plus that of the negative hits, one term per occurrence of a
\* token; tokens in Neutral or in no category add nothing, and no tokens give
\* total 0.  With disjoint categories the hits are the occurrences of the
\* keys of each category.
C8_TotalIsSumOfHits ==
    (pc = "returned" /\ call.fn = "analiza_sentimiento")
    => LET lex == call.lex
       IN  /\ ret.total = SumWeights(ret.pos_words, lex.positivos)
                              + SumWeights(ret.neg_words, lex.negativos)
           /\ DisjointKeys(lex.positivos, lex.negativos, lex.neutros)
                 => /\ ret.pos_words = Hits(call.words, lex.positivos)
                    /\ ret.neg_words = Hits(call.words, lex.negativos)
                    /\ ret.neut_words = Hits(call.words, lex.neutros)
           /\ call.words = <<>> => ret.total = 0

\* C8 witness: a positive word read twice, a negative word, and a total that
\* is not 0.
C8_Witness ==
    /\ pc = "returned"
    /\ call.fn = "analiza_sentimiento"
    /\ ret.pos_count = 2
    /\ ret.pos_words[1] = ret.pos_words[2]
    /\ ret.neg_count = 1
    /\ ret.total > 0

\* C9: the list find_undefined returns holds a token of the sequence exactly
\* when the token is a key of none of the three categories; it has no
\* duplicates and is in ascending order.
C9_UndefinedExactSortedUnique ==
    (pc = "returned" /\ call.fn = "find_undefined")
    => LET lex == call.lex
           known(w) == has(lex.positivos, w) \/ has(lex.negativos, w) \/ has(lex.neutros, w)
       IN  /\ \A w \in Range(call.words) : w \in Range(ret) <=> ~known(w)
           /\ Range(ret) \subseteq Range(call.words)
           /\ \A i, j \in 1..Len(ret) : i < j => StrLess(ret[i], ret[j])

\* C9 witness: two undefined words, the greater one read first and read
\* twice, and a word of the lexicon among the tokens.
C9_Witness ==
    /\ pc = "returned"
    /\ call.fn = "find_undefined"
    /\ Len(ret) = 2
    /\ call.words[1] = ret[2]
    /\ \E i \in 2..Len(call.words) : call.words[i] = call.words[1]
    /\ \E i \in 1..Len(call.words) : call.words[i] \notin Range(ret)

\* A line with a character that is not white space.
NonBlank(l) == \E i \in 1..Len(l) : ~IsSpace(l[i])

NonBlankLines(ls) == {i \in 1..Len(ls) : NonBlank(ls[i])}

FirstOf(S) == CHOOSE i \in S : \A j \in S : i <= j

LastOf(S) == CHOOSE i \in S : \A j \in S : j <= i

\* Some pattern of the list matches the line, lower-cased and without accents.
LineMatches(patterns, l) == any_search(patterns, strip_accents(lower(l)))

\* C10: greeting_ok holds exactly when a greeting pattern matches the first
\* non-empty line, farewell_ok exactly when a farewell pattern matches the
\* last one; a pattern that matches only a line that is neither sets no flag,
\* and a text without a non-empty line gives two false flags.
C10_FirstAndLastLineOnly ==
    (pc = "returned" /\ call.fn = "analiza_protocolo")
    => LET ls == call.lines
           nb == NonBlankLines(ls)
       IN  /\ ret.saludo <=> (nb # {} /\ LineMatches(SALUDOS, ls[FirstOf(nb)]))
           /\ ret.desp <=> (nb # {} /\ LineMatches(DESPEDIDAS, ls[LastOf(nb)]))
           /\ nb = {} => ~ret.saludo /\ ~ret.desp

\* C10 witness: a greeting on a middle line only, between two other non-empty
\* lines, and both flags false.
C10_Witness ==
    /\ pc = "returned"
    /\ call.fn = "analiza_protocolo"
    /\ ~ret.saludo
    /\ ~ret.desp
    /\ Len(call.lines) = 3
    /\ NonBlank(call.lines[1])
    /\ NonBlank(call.lines[3])
    /\ LineMatches(SALUDOS, call.lines[2])

=============================================================================
